---- MODULE Spec2Model ----
(***************************************************************************)
(* Model of the WheelDeal listing scrapers and of the comparable-listings  *)
(* selection:                                                              *)
(*   src/src/scraper_selenium.py  _parse_price, scrape_olx_listings        *)
(*   src/src/scraper.py           clean_price, clean_km, fetch_html,       *)
(*                                parse_listings_from_html,                *)
(*                                scrape_search_results                    *)
(*   src/app.py                   the "Similar Cars" filter and ranking    *)
(*                                                                         *)
(* Python strings are sequences of one-character strings.  Python None is  *)
(* NoneStr where a string is expected and Null where a number is expected. *)
(***************************************************************************)
EXTENDS Integers, Sequences, FiniteSets, TLC

VARIABLES
    \* ---- text normalizers (one call of each on the same text)
    npc, nText, nParse, nPrice, nKm,
    \* ---- scrape_olx_listings
    pc, pages, headless, page, driver, startAttempts, quitCount,
    navigated, failedPage, marker, doc, sel, evaluated, items, idx,
    all_listings, emitted, outcome, failures, links,
    \* ---- parse_listings_from_html, container resolution
    hpc, hdoc, htag, hevaluated, containers,
    \* ---- fetch_html
    fpc, max_retries, attempt, requests, slept, response, fret,
    \* ---- app.py comparable listings
    rpc, listings, price, tol, low100, high100, filtered, results,
    \* ---- scrape_search_results
    spc, spages, spage, html, all_rows, combined, pageLog

normVars   == <<npc, nText, nParse, nPrice, nKm>>
scrapeVars == <<pc, pages, headless, page, driver, startAttempts, quitCount,
                navigated, failedPage, marker, doc, sel, evaluated, items, idx,
                all_listings, emitted, outcome, failures, links>>
htmlVars   == <<hpc, hdoc, htag, hevaluated, containers>>
fetchVars  == <<fpc, max_retries, attempt, requests, slept, response, fret>>
rankVars   == <<rpc, listings, price, tol, low100, high100, filtered, results>>
searchVars == <<spc, spages, spage, html, all_rows, combined, pageLog>>
vars       == <<normVars, scrapeVars, htmlVars, fetchVars, rankVars, searchVars>>

(***************************************************************************)
(* Values                                                                  *)
(***************************************************************************)
\* Python None where an int is expected (prices are never negative)
Null == -1
\* Python None where a str is expected
NoneStr == <<"None">>
\* a call that raises instead of returning a string
Raises == <<"raise">>

Digits == {"0", "1", "2", "3", "4", "5", "6", "7", "8", "9"}
Whitespace == {" ", "\n"}

DigitVal(c) ==
    CASE c = "0" -> 0 [] c = "1" -> 1 [] c = "2" -> 2 [] c = "3" -> 3
      [] c = "4" -> 4 [] c = "5" -> 5 [] c = "6" -> 6 [] c = "7" -> 7
      [] c = "8" -> 8 [] c = "9" -> 9

\* Python truthiness of a str-or-None and of an int-or-None
TruthyStr(s) == s # NoneStr /\ s # <<>>
TruthyInt(n) == n # Null /\ n # 0

\* s.replace(c, '')
RECURSIVE RemoveChar(_, _)
RemoveChar(s, c) ==
    IF s = <<>> THEN <<>>
    ELSE IF Head(s) = c THEN RemoveChar(Tail(s), c)
    ELSE <<Head(s)>> \o RemoveChar(Tail(s), c)

\* re.findall(r"\d+", s): the maximal digit runs of s, left to right
\* (cur is the run being read)
RECURSIVE FindDigitRuns(_, _)
FindDigitRuns(s, cur) ==
    IF s = <<>> THEN (IF cur = <<>> THEN <<>> ELSE <<cur>>)
    ELSE IF Head(s) \in Digits THEN FindDigitRuns(Tail(s), Append(cur, Head(s)))
    ELSE (IF cur = <<>> THEN <<>> ELSE <<cur>>) \o FindDigitRuns(Tail(s), <<>>)

\* ''.join(parts)
RECURSIVE Join(_)
Join(parts) ==
    IF parts = <<>> THEN <<>> ELSE Head(parts) \o Join(Tail(parts))

\* re.sub(r"[^\d]", "", s)
RECURSIVE SubNonDigits(_)
SubNonDigits(s) ==
    IF s = <<>> THEN <<>>
    ELSE IF Head(s) \in Digits THEN <<Head(s)>> \o SubNonDigits(Tail(s))
    ELSE SubNonDigits(Tail(s))

\* int(t) for a non-empty string of digits
RECURSIVE IntOf(_)
IntOf(t) ==
    IF Len(t) = 1 THEN DigitVal(t[1])
    ELSE 10 * IntOf(SubSeq(t, 1, Len(t) - 1)) + DigitVal(t[Len(t)])

\* s.strip()
RECURSIVE LStrip(_)
LStrip(s) ==
    IF s # <<>> /\ Head(s) \in Whitespace THEN LStrip(Tail(s)) ELSE s

RECURSIVE RStrip(_)
RStrip(s) ==
    IF s # <<>> /\ s[Len(s)] \in Whitespace
    THEN RStrip(SubSeq(s, 1, Len(s) - 1)) ELSE s

Strip(s) == LStrip(RStrip(s))

\* s.split('\n')[0]
RECURSIVE FirstLine(_)
FirstLine(s) ==
    IF s = <<>> \/ Head(s) = "\n" THEN <<>>
    ELSE <<Head(s)>> \o FirstLine(Tail(s))

\* t[:n]
Min(a, b) == IF a <= b THEN a ELSE b
Take(t, n) == SubSeq(t, 1, Min(n, Len(t)))

(***************************************************************************)
(* Text normalizers                                                        *)
(***************************************************************************)
\* _parse_price reading the first run of digits only
_parse_price_first_run(text) ==
    IF ~TruthyStr(text) THEN Null
    ELSE LET nums == FindDigitRuns(RemoveChar(text, ","), <<>>)
         IN  IF nums = <<>> THEN Null ELSE IntOf(nums[1])

\* scraper_selenium.py _parse_price
_parse_price(text) ==
    IF ~TruthyStr(text) THEN Null
    ELSE LET nums == FindDigitRuns(RemoveChar(text, ","), <<>>)
         IN  IF nums = <<>> THEN Null ELSE IntOf(Join(nums))

\* scraper.py clean_price
clean_price(text) ==
    IF ~TruthyStr(text) THEN Null
    ELSE LET t == SubNonDigits(text)
         IN  IF t # <<>> THEN IntOf(t) ELSE Null

\* scraper.py clean_km
clean_km(text) ==
    IF ~TruthyStr(text) THEN Null
    ELSE LET t == SubNonDigits(text)
         IN  IF t # <<>> THEN IntOf(t) ELSE Null

(***************************************************************************)
(* Inputs of the normalizers                                               *)
(***************************************************************************)
\* longest enumerated text
MaxTextLen == 3
\* largest integer whose decimal rendering is normalized
MaxRendered == 120

TextAlphabet == {"0", "3", "4", "5", ",", " ", "a"}

RECURSIVE SeqsUpTo(_, _)
SeqsUpTo(S, n) ==
    IF n = 0 THEN {<<>>}
    ELSE LET shorter == SeqsUpTo(S, n - 1)
         IN  shorter \cup {Append(s, c) : s \in {t \in shorter : Len(t) = n - 1}, c \in S}

DigitChar(d) ==
    CASE d = 0 -> "0" [] d = 1 -> "1" [] d = 2 -> "2" [] d = 3 -> "3"
      [] d = 4 -> "4" [] d = 5 -> "5" [] d = 6 -> "6" [] d = 7 -> "7"
      [] d = 8 -> "8" [] d = 9 -> "9"

\* str(n) for n >= 0
RECURSIVE Render(_)
Render(n) ==
    IF n < 10 THEN <<DigitChar(n)>>
    ELSE Append(Render(n \div 10), DigitChar(n % 10))

\* the price text of the docstring of _parse_price
RupeeText == <<"₹", " ", "3", ",", "4", "5", ",", "0", "0", "0">>

NormTexts ==
    SeqsUpTo(TextAlphabet, MaxTextLen)
        \cup {Render(n) : n \in 0..MaxRendered}
        \cup {NoneStr, RupeeText, <<"1", "2", " ", "k", "m", "s">>}

NormInit ==
    /\ npc = "call"
    /\ nText \in NormTexts
    /\ nParse = Null /\ nPrice = Null /\ nKm = Null

NormIdle ==
    /\ npc = "idle"
    /\ nText = NoneStr
    /\ nParse = Null /\ nPrice = Null /\ nKm = Null

\* one call of each normalizer on nText
Normalize ==
    /\ npc = "call"
    /\ nParse' = _parse_price(nText)
    /\ nPrice' = clean_price(nText)
    /\ nKm' = clean_km(nText)
    /\ npc' = "returned"
    /\ UNCHANGED nText
    /\ UNCHANGED <<scrapeVars, htmlVars, fetchVars, rankVars, searchVars>>

(***************************************************************************)
(* scrape_olx_listings: the rendered page and its elements                 *)
(***************************************************************************)
\* largest pages argument
MaxPages == 2
\* most elements one CSS selector matches on a page
MaxItems == 2

\* selectors (line 79)
NSel == 5
base == <<"https://www.olx.in">>

\* find_elements(selector) on a page: -1 when it raises, else the number of
\* elements matched
SelRaises == -1
Docs == [1..NSel -> SelRaises..MaxItems]

\* the k-th element matched by selector s, k = 1..n
Matches(s, n) == [k \in 1..n |-> [sel |-> s, k |-> k]]

\* pages rendered during a scrape: selectors before the first matching one
\* raise or match nothing, the later ones match MaxItems elements; on the last
\* page no selector matches (they raise and match nothing in turn)
DocOf(w, n, before) ==
    [s \in 1..NSel |-> IF s < w THEN before ELSE IF s = w THEN n ELSE MaxItems]
ScrapeDocs ==
    {DocOf(1, n, 0) : n \in 1..MaxItems}
        \cup {DocOf(3, MaxItems, SelRaises),
              [s \in 1..NSel |-> IF s % 2 = 1 THEN SelRaises ELSE 0]}
\* the link elements with a short non-empty text each of these pages carries
PageLinks == MaxItems

\* What the browser answers for one listing element `it`:
\*   text   it.text, or Raises (stale element)
\*   title  for each of the 3 title selectors: the text of the element found, or
\*          Raises when find_element / .text raises
\*   price  the same for the 3 price selectors
\*   href   the href of the first <a>: a string, NoneStr, or Raises
\*   loc    the same as title for the 3 location selectors
SwText == <<"S", "w">>
Elem(text, title, pr, href, loc) ==
    [text |-> text, title |-> title, price |-> pr, href |-> href, loc |-> loc]
AllRaise == <<Raises, Raises, Raises>>
Elements ==
    { \* title by the 2nd selector, price by the 2nd, relative link, location
      Elem(SwText \o <<"\n">> \o RupeeText, <<Raises, SwText, Raises>>,
           <<<<>>, RupeeText, Raises>>, <<"/", "i">>, <<Raises, <<"P">>, Raises>>),
      \* whitespace only
      Elem(<<" ">>, AllRaise, AllRaise, Raises, AllRaise),
      \* stale element: it.text raises
      Elem(Raises, AllRaise, AllRaise, Raises, AllRaise),
      \* nothing resolves
      Elem(<<"A", "d">>, <<Raises, <<" ">>, Raises>>, AllRaise, NoneStr, AllRaise),
      \* no title, price only in the full text
      Elem(<<"₹", "9", "0", "\n", "x">>, <<Raises, <<" ">>, Raises>>,
           <<Raises, <<"a">>, Raises>>, <<"h">>, AllRaise),
      \* title, no price anywhere
      Elem(SwText, <<SwText, Raises, Raises>>, AllRaise, Raises, AllRaise),
      \* no title, price text "0"
      Elem(<<"0", " ", "k", "m">>, AllRaise, <<<<"0">>, Raises, Raises>>,
           NoneStr, AllRaise) }

\* lines 113-122 and 151-160: the last non-raising query decides, the first
\* non-empty stripped text ends the loop
RECURSIVE FirstText(_, _, _)
FirstText(q, i, cur) ==
    IF i > Len(q) THEN cur
    ELSE IF q[i] = Raises THEN FirstText(q, i + 1, cur)
    ELSE LET t == Strip(q[i])
         IN  IF TruthyStr(t) THEN t ELSE FirstText(q, i + 1, t)

\* lines 125-134
RECURSIVE FirstPrice(_, _, _)
FirstPrice(q, i, cur) ==
    IF i > Len(q) THEN cur
    ELSE IF q[i] = Raises THEN FirstPrice(q, i + 1, cur)
    ELSE LET p == _parse_price(q[i])
         IN  IF TruthyInt(p) THEN p ELSE FirstPrice(q, i + 1, p)

\* lines 124-138: dedicated price elements, then the full text
ResolvePrice(it, text) ==
    LET p == FirstPrice(it.price, 1, Null)
    IN  IF ~TruthyInt(p) THEN _parse_price(text) ELSE p

\* lines 141-148
ResolveHref(it) ==
    IF it.href = Raises THEN NoneStr
    ELSE IF TruthyStr(it.href) /\ Head(it.href) = "/" THEN base \o it.href
    ELSE it.href

\* Emits without the guard of line 163
EmitsAlways(title, pr) == TRUE

\* line 163
Emits(title, pr) == TruthyStr(title) \/ TruthyInt(pr)

\* Record with the title field left None when no title was resolved
RecordNullTitle(title, pr, href, location, text) ==
    [title |-> IF TruthyStr(title) THEN title ELSE NoneStr,
     price |-> pr,
     url   |-> href,
     meta  |-> IF TruthyStr(location) THEN location
               ELSE <<"Location not specified">>,
     raw   |-> text]

\* lines 164-170
Record(title, pr, href, location, text) ==
    [title |-> IF TruthyStr(text)
               THEN (IF TruthyStr(title) THEN title ELSE FirstLine(text))
               ELSE <<"Unknown">>,
     price |-> pr,
     url   |-> href,
     meta  |-> IF TruthyStr(location) THEN location
               ELSE <<"Location not specified">>,
     raw   |-> text]

\* lines 106-174, one iteration: the records the element adds (none or one)
ItemRecords(it) ==
    IF it.text = Raises THEN <<>>
    ELSE LET text == Strip(it.text)
         IN  IF ~TruthyStr(text) THEN <<>>
             ELSE LET title == FirstText(it.title, 1, NoneStr)
                      pr == ResolvePrice(it, text)
                      href == ResolveHref(it)
                      location == FirstText(it.loc, 1, NoneStr)
                  IN  IF Emits(title, pr)
                      THEN <<Record(title, pr, href, location, text)>>
                      ELSE <<>>

\* lines 106-174, one iteration: an exception reaches the handler of line 172
\* (it.text raises; the field queries have handlers of their own)
ItemRaises(it) == it.text = Raises

\* the title and price variables of lines 113-138 for an element with text
ResolvedFields(it) ==
    [title |-> FirstText(it.title, 1, NoneStr),
     price |-> ResolvePrice(it, Strip(it.text))]

\* what processing each element of Elements gives
Extracted ==
    [it \in Elements |-> [recs |-> ItemRecords(it), resolved |-> ResolvedFields(it),
                          raised |-> ItemRaises(it)]]

(***************************************************************************)
(* scrape_olx_listings: control flow                                       *)
(*   pc        call -> loop -> wait -> resolve -> resolved -> items -> loop *)
(*             ... -> (except ->) finally -> done                          *)
(*   driver    "none", "running", "quit"                                   *)
(*   navigated the page numbers driver.get was called with, in order       *)
(*   failedPage the page whose driver.get raised, 0 when none did          *)
(*   marker    how the wait for "li[data-aut-id]" ended on the page being   *)
(*             processed: "present", "timeout"; "none" between pages       *)
(*   evaluated the selector indices find_elements was called with on the   *)
(*             current page                                                *)
(*   emitted   for each record of all_listings, the title and price that   *)
(*             were resolved when it was appended, and the page number     *)
(*   failures  the elements of the current page whose processing raised    *)
(*             (lines 172-174); 0 between pages                            *)
(*   links     the link elements with a short non-empty text on the page   *)
(*             being processed (no line of the function queries them)      *)
(*   outcome   "none", "returning"/"raising" (finally pending),            *)
(*             "returned" (all_listings is the result), "raised",          *)
(*             "RuntimeError" (line 53), "start_error" (any other error    *)
(*             of lines 50-51)                                             *)
(***************************************************************************)
NoDoc == [s \in 1..NSel |-> 0]

ScrapeInit ==
    /\ pc = "call"
    /\ pages \in 1..MaxPages
    /\ headless \in BOOLEAN
    /\ page = 0
    /\ driver = "none"
    /\ startAttempts = 0
    /\ quitCount = 0
    /\ navigated = <<>>
    /\ failedPage = 0
    /\ marker = "none"
    /\ doc = NoDoc
    /\ sel = 0
    /\ evaluated = <<>>
    /\ items = <<>>
    /\ idx = 0
    /\ all_listings = <<>>
    /\ emitted = <<>>
    /\ outcome = "none"
    /\ failures = 0
    /\ links = 0

ScrapeIdle ==
    /\ pc = "idle"
    /\ pages = 0
    /\ headless = TRUE
    /\ page = 0
    /\ driver = "none"
    /\ startAttempts = 0
    /\ quitCount = 0
    /\ navigated = <<>>
    /\ failedPage = 0
    /\ marker = "none"
    /\ doc = NoDoc
    /\ sel = 0
    /\ evaluated = <<>>
    /\ items = <<>>
    /\ idx = 0
    /\ all_listings = <<>>
    /\ emitted = <<>>
    /\ outcome = "none"
    /\ failures = 0
    /\ links = 0

notScrape == <<normVars, htmlVars, fetchVars, rankVars, searchVars>>

\* StartDriver with a second attempt after a failed start
StartDriverRetries ==
    /\ pc = "call"
    /\ startAttempts' = startAttempts + 1
    /\ \E started \in {"ok", "WebDriverException"} :
         IF started = "ok"
         THEN /\ driver' = "running"
              /\ pc' = "loop"
              /\ page' = 1
              /\ outcome' = outcome
         ELSE /\ driver' = driver
              /\ pc' = IF startAttempts < 1 THEN "call" ELSE "done"
              /\ page' = page
              /\ outcome' = IF startAttempts < 1 THEN outcome ELSE "RuntimeError"
    /\ UNCHANGED <<pages, headless, quitCount, navigated, failedPage, marker, doc,
                   sel, evaluated, items, idx, all_listings, emitted>>
    /\ UNCHANGED <<failures, links>>
    /\ UNCHANGED <<normVars, htmlVars, fetchVars, rankVars, searchVars>>

\* lines 49-56: the driver starts, or the call ends with an error
StartDriver ==
    /\ pc = "call"
    /\ startAttempts' = startAttempts + 1
    /\ \E started \in {"ok", "WebDriverException", "other"} :
         IF started = "ok"
         THEN /\ driver' = "running"
              /\ pc' = "loop"
              /\ page' = 1
              /\ outcome' = outcome
         ELSE /\ driver' = driver
              /\ pc' = "done"
              /\ page' = page
              /\ outcome' = IF started = "WebDriverException"
                            THEN "RuntimeError" ELSE "start_error"
    /\ UNCHANGED <<pages, headless, quitCount, navigated, failedPage, marker, doc,
                   sel, evaluated, items, idx, all_listings, emitted>>
    /\ UNCHANGED <<failures, links>>
    /\ UNCHANGED notScrape

\* Navigate with a failed driver.get skipped: the loop goes on with the next page
NavigateSkipsFailure ==
    /\ pc = "loop"
    /\ page <= pages
    /\ navigated' = Append(navigated, page)
    /\ \/ /\ doc' \in ScrapeDocs
          /\ links' = PageLinks
          /\ pc' = "wait"
          /\ failedPage' = failedPage
          /\ page' = page
       \/ /\ doc' = doc
          /\ links' = links
          /\ pc' = "loop"
          /\ failedPage' = page
          /\ page' = page + 1
    /\ UNCHANGED <<pages, headless, driver, startAttempts, quitCount, marker,
                   sel, evaluated, items, idx, all_listings, emitted, outcome>>
    /\ UNCHANGED failures
    /\ UNCHANGED <<normVars, htmlVars, fetchVars, rankVars, searchVars>>

\* lines 59-64: driver.get of the next page renders some page, or raises
Navigate ==
    /\ pc = "loop"
    /\ page <= pages
    /\ navigated' = Append(navigated, page)
    /\ \/ /\ doc' \in ScrapeDocs
          /\ links' = PageLinks
          /\ pc' = "wait"
          /\ failedPage' = failedPage
       \/ /\ doc' = doc
          /\ links' = links
          /\ pc' = "except"
          /\ failedPage' = page
    /\ UNCHANGED <<pages, headless, page, driver, startAttempts, quitCount, marker,
                   sel, evaluated, items, idx, all_listings, emitted, outcome>>
    /\ UNCHANGED failures
    /\ UNCHANGED notScrape

\* line 59 after the last page, line 184
LoopEnd ==
    /\ pc = "loop"
    /\ page > pages
    /\ pc' = "finally"
    /\ outcome' = "returning"
    /\ UNCHANGED <<pages, headless, page, driver, startAttempts, quitCount,
                   navigated, failedPage, marker, doc, sel, evaluated, items, idx,
                   all_listings, emitted>>
    /\ UNCHANGED <<failures, links>>
    /\ UNCHANGED notScrape

\* WaitForListings with a page whose wait timed out left for the next page
WaitForListingsSkipsTimeout ==
    /\ pc = "wait"
    /\ \/ /\ marker' = "present"
          /\ pc' = "resolve"
          /\ page' = page
       \/ /\ marker' = "none"
          /\ pc' = "loop"
          /\ page' = page + 1
    /\ items' = <<>>
    /\ sel' = 1
    /\ evaluated' = <<>>
    /\ UNCHANGED <<pages, headless, driver, startAttempts, quitCount,
                   navigated, failedPage, doc, idx, all_listings, emitted, outcome>>
    /\ UNCHANGED <<failures, links>>
    /\ UNCHANGED <<normVars, htmlVars, fetchVars, rankVars, searchVars>>

\* lines 67-78: sleep, then the bounded wait for "li[data-aut-id]"; a timeout
\* (or any error of the wait) is printed and the page is processed all the same
WaitForListings ==
    /\ pc = "wait"
    /\ marker' \in {"present", "timeout"}
    /\ pc' = "resolve"
    /\ items' = <<>>
    /\ sel' = 1
    /\ evaluated' = <<>>
    /\ UNCHANGED <<pages, headless, page, driver, startAttempts, quitCount,
                   navigated, failedPage, doc, idx, all_listings, emitted, outcome>>
    /\ UNCHANGED <<failures, links>>
    /\ UNCHANGED notScrape

\* SelectorStep without the break of line 92
SelectorStepNoBreak(d, s, its) ==
    IF d[s] = SelRaises THEN [items |-> its, found |-> FALSE]
    ELSE [items |-> Matches(s, d[s]), found |-> FALSE]

\* lines 87-94, one iteration: the selector raises (continue), matches
\* nothing (next selector) or matches (break)
SelectorStep(d, s, its) ==
    IF d[s] = SelRaises THEN [items |-> its, found |-> FALSE]
    ELSE [items |-> Matches(s, d[s]), found |-> d[s] > 0]

TrySelector ==
    /\ pc = "resolve"
    /\ sel <= NSel
    /\ evaluated' = Append(evaluated, sel)
    /\ LET r == SelectorStep(doc, sel, items)
       IN  /\ items' = r.items
           /\ IF r.found
              THEN pc' = "resolved" /\ sel' = sel
              ELSE pc' = pc /\ sel' = sel + 1
    /\ UNCHANGED <<pages, headless, page, driver, startAttempts, quitCount,
                   navigated, failedPage, marker, doc, idx, all_listings, emitted,
                   outcome>>
    /\ UNCHANGED <<failures, links>>
    /\ UNCHANGED notScrape

\* SelectorsExhausted with the link elements of the page taken as the items
\* when no selector matched
SelectorsExhaustedFallsBack ==
    /\ pc = "resolve"
    /\ sel > NSel
    /\ pc' = "resolved"
    /\ items' = IF items = <<>> THEN Matches(0, links) ELSE items
    /\ UNCHANGED <<pages, headless, page, driver, startAttempts, quitCount,
                   navigated, failedPage, marker, doc, sel, evaluated, idx,
                   all_listings, emitted, outcome>>
    /\ UNCHANGED <<failures, links>>
    /\ UNCHANGED <<normVars, htmlVars, fetchVars, rankVars, searchVars>>

\* line 87: the selector list is exhausted
SelectorsExhausted ==
    /\ pc = "resolve"
    /\ sel > NSel
    /\ pc' = "resolved"
    /\ UNCHANGED <<pages, headless, page, driver, startAttempts, quitCount,
                   navigated, failedPage, marker, doc, sel, evaluated, items, idx,
                   all_listings, emitted, outcome>>
    /\ UNCHANGED <<failures, links>>
    /\ UNCHANGED notScrape

\* lines 96-101: no element found, go to the next page; with a visible browser
\* driver.title is read first, and that call may raise
NoItems ==
    /\ pc = "resolved"
    /\ items = <<>>
    /\ \/ pc' = "loop" /\ page' = page + 1
       \/ ~headless /\ pc' = "except" /\ page' = page
    /\ marker' = "none"
    /\ UNCHANGED <<pages, headless, driver, startAttempts, quitCount, navigated,
                   failedPage, doc, sel, evaluated, items, idx,
                   all_listings, emitted, outcome>>
    /\ UNCHANGED <<failures, links>>
    /\ UNCHANGED notScrape

\* lines 103-105
BeginItems ==
    /\ pc = "resolved"
    /\ items # <<>>
    /\ pc' = "items"
    /\ idx' = 1
    /\ UNCHANGED <<pages, headless, page, driver, startAttempts, quitCount,
                   navigated, failedPage, marker, doc, sel, evaluated, items,
                   all_listings, emitted, outcome>>
    /\ UNCHANGED <<failures, links>>
    /\ UNCHANGED notScrape

\* ProcessItem with the new record put in front of the accumulator
ProcessItemPrepends ==
    /\ pc = "items"
    /\ idx <= Len(items)
    /\ \E it \in Elements :
         LET recs == Extracted[it].recs
             resolved == Extracted[it].resolved
         IN  /\ all_listings' = recs \o all_listings
             /\ emitted' = IF recs = <<>> THEN emitted
                           ELSE Append(emitted,
                                  [title |-> resolved.title, price |-> resolved.price,
                                   page |-> page])
             /\ failures' = IF Extracted[it].raised THEN failures + 1 ELSE failures
    /\ idx' = idx + 1
    /\ UNCHANGED <<pc, pages, headless, page, driver, startAttempts, quitCount,
                   navigated, failedPage, marker, doc, sel, evaluated, items,
                   outcome, links>>
    /\ UNCHANGED <<normVars, htmlVars, fetchVars, rankVars, searchVars>>

\* ProcessItem without the handler of lines 172-174: an element whose
\* processing raises ends the page loop
ProcessItemUnguarded ==
    /\ pc = "items"
    /\ idx <= Len(items)
    /\ \E it \in Elements :
         LET recs == Extracted[it].recs
             resolved == Extracted[it].resolved
         IN  /\ all_listings' = all_listings \o recs
             /\ emitted' = IF recs = <<>> THEN emitted
                           ELSE Append(emitted,
                                  [title |-> resolved.title, price |-> resolved.price,
                                   page |-> page])
             /\ failures' = IF Extracted[it].raised THEN failures + 1 ELSE failures
             /\ pc' = IF Extracted[it].raised THEN "except" ELSE pc
             /\ idx' = IF Extracted[it].raised THEN idx ELSE idx + 1
    /\ UNCHANGED <<pages, headless, page, driver, startAttempts, quitCount,
                   navigated, failedPage, marker, doc, sel, evaluated, items,
                   outcome, links>>
    /\ UNCHANGED <<normVars, htmlVars, fetchVars, rankVars, searchVars>>

\* lines 105-174, one element: the browser answers for it as one of Elements
ProcessItem ==
    /\ pc = "items"
    /\ idx <= Len(items)
    /\ \E it \in Elements :
         LET recs == Extracted[it].recs
             resolved == Extracted[it].resolved
         IN  /\ all_listings' = all_listings \o recs
             /\ emitted' = IF recs = <<>> THEN emitted
                           ELSE Append(emitted,
                                  [title |-> resolved.title, price |-> resolved.price,
                                   page |-> page])
             /\ failures' = IF Extracted[it].raised THEN failures + 1 ELSE failures
    /\ idx' = idx + 1
    /\ UNCHANGED <<pc, pages, headless, page, driver, startAttempts, quitCount,
                   navigated, failedPage, marker, doc, sel, evaluated, items,
                   outcome, links>>
    /\ UNCHANGED notScrape

\* line 176, back to line 59
PageDone ==
    /\ pc = "items"
    /\ idx > Len(items)
    /\ pc' = "loop"
    /\ page' = page + 1
    /\ marker' = "none"
    /\ failures' = 0
    /\ UNCHANGED <<pages, headless, driver, startAttempts, quitCount, navigated,
                   failedPage, doc, sel, evaluated, items, idx,
                   all_listings, emitted, outcome, links>>
    /\ UNCHANGED notScrape

\* ExceptHandler re-raising with the driver left running
ExceptHandlerLeaks ==
    /\ pc = "except"
    /\ pc' = "done"
    /\ outcome' = "raised"
    /\ UNCHANGED <<pages, headless, page, driver, startAttempts, quitCount,
                   navigated, failedPage, marker, doc, sel, evaluated, items, idx,
                   all_listings, emitted>>
    /\ UNCHANGED <<failures, links>>
    /\ UNCHANGED <<normVars, htmlVars, fetchVars, rankVars, searchVars>>

\* lines 178-180: print and re-raise
ExceptHandler ==
    /\ pc = "except"
    /\ pc' = "finally"
    /\ outcome' = "raising"
    /\ UNCHANGED <<pages, headless, page, driver, startAttempts, quitCount,
                   navigated, failedPage, marker, doc, sel, evaluated, items, idx,
                   all_listings, emitted>>
    /\ UNCHANGED <<failures, links>>
    /\ UNCHANGED notScrape

\* lines 181-185: driver.quit(), then the return or the pending raise
Finally ==
    /\ pc = "finally"
    /\ quitCount' = quitCount + 1
    /\ driver' = "quit"
    /\ pc' = "done"
    /\ outcome' = IF outcome = "raising" THEN "raised" ELSE "returned"
    /\ UNCHANGED <<pages, headless, page, startAttempts, navigated, failedPage,
                   marker, doc, sel, evaluated, items, idx, all_listings, emitted>>
    /\ UNCHANGED <<failures, links>>
    /\ UNCHANGED notScrape

ScrapeNext ==
    \/ StartDriver
    \/ Navigate
    \/ LoopEnd
    \/ WaitForListings
    \/ TrySelector
    \/ SelectorsExhausted
    \/ NoItems
    \/ BeginItems
    \/ ProcessItem
    \/ PageDone
    \/ ExceptHandler
    \/ Finally


(***************************************************************************)
(* parse_listings_from_html: the containers of a page (lines 87-108)       *)
(*   hdoc       the parsed page: for each entry of possible_containers the *)
(*              number of elements find_all gives, and the <a href>        *)
(*              elements in document order, each by the length of its      *)
(*              stripped text                                              *)
(*   htag       the index into possible_containers                         *)
(*   hevaluated the indices find_all was called with                       *)
(*   containers the variable of line 98                                    *)
(***************************************************************************)
\* possible_containers (line 91)
NCand == 4
\* len(c.text.strip()) < 200 and [:200] (line 108)
AnchorTextLimit == 200
AnchorCountLimit == 200

AnchorLens == {0, 5, 200}
HtmlDocs ==
    [cands : [1..NCand -> 0..MaxItems], anchors : SeqsUpTo(AnchorLens, MaxItems)]

\* the k-th element find_all gives for candidate c; the k-th <a href> element
Found(c, n) == [k \in 1..n |-> [cand |-> c, k |-> k]]
Anchors(d) == [k \in 1..Len(d.anchors) |-> [cand |-> 0, k |-> k]]

\* lines 107-108
LinkFallback(d) ==
    Take(SelectSeq(Anchors(d),
                   LAMBDA a : d.anchors[a.k] # 0 /\ d.anchors[a.k] < AnchorTextLimit),
         AnchorCountLimit)

HtmlInit ==
    /\ hpc = "candidates"
    /\ hdoc \in HtmlDocs
    /\ htag = 1
    /\ hevaluated = <<>>
    /\ containers = <<>>

HtmlIdle ==
    /\ hpc = "idle"
    /\ hdoc = [cands |-> [c \in 1..NCand |-> 0], anchors |-> <<>>]
    /\ htag = 0
    /\ hevaluated = <<>>
    /\ containers = <<>>

notHtml == <<normVars, scrapeVars, fetchVars, rankVars, searchVars>>

\* lines 99-103, one iteration
HtmlTryCandidate ==
    /\ hpc = "candidates"
    /\ htag <= NCand
    /\ hevaluated' = Append(hevaluated, htag)
    /\ LET found == Found(htag, hdoc.cands[htag])
       IN  IF found # <<>>
           THEN containers' = found /\ hpc' = "after" /\ htag' = htag
           ELSE containers' = containers /\ hpc' = hpc /\ htag' = htag + 1
    /\ UNCHANGED hdoc
    /\ UNCHANGED notHtml

\* line 99: possible_containers is exhausted
HtmlCandidatesExhausted ==
    /\ hpc = "candidates"
    /\ htag > NCand
    /\ hpc' = "after"
    /\ UNCHANGED <<hdoc, htag, hevaluated, containers>>
    /\ UNCHANGED notHtml

\* lines 105-108: the link elements when no candidate matched
HtmlAfterLoop ==
    /\ hpc = "after"
    /\ containers' = IF containers = <<>> THEN LinkFallback(hdoc) ELSE containers
    /\ hpc' = "containers"
    /\ UNCHANGED <<hdoc, htag, hevaluated>>
    /\ UNCHANGED notHtml

(***************************************************************************)
(* fetch_html                                                              *)
(*   attempt   the loop variable of line 57                                *)
(*   requests  the number of requests.get calls made                       *)
(*   slept     the time.sleep arguments so far, in tenths of a second      *)
(*   response  what the last requests.get gave                             *)
(*   fret      the value returned: the response text or NoneStr;           *)
(*             NotReturned while the call runs                             *)
(***************************************************************************)
\* largest max_retries argument
MaxRetriesArg == 4
\* the default of the max_retries parameter
DefaultMaxRetries == 3
\* raise_for_status raises from this status on
ErrorStatus == 400

NotReturned == <<"not returned">>

\* random.uniform(1.0, 2.5) and random.uniform(2, 5): the ends and a middle value
PreDelays == {10, 17, 25}
BackoffDelays == {20, 50}

\* str.lower() on the letters that occur
Lower(c) ==
    CASE c = "H" -> "h" [] c = "T" -> "t" [] c = "M" -> "m" [] c = "L" -> "l"
      [] OTHER -> c
LowerStr(t) == [i \in 1..Len(t) |-> Lower(t[i])]

\* needle in t
Contains(needle, t) ==
    \E i \in 1..(Len(t) - Len(needle) + 1) :
        SubSeq(t, i, i + Len(needle) - 1) = needle

HtmlRoot == <<"<", "h", "t", "m", "l">>

\* line 66
LooksValid(text) == Contains(HtmlRoot, LowerStr(text))

Bodies ==
    { <<"<", "h", "t", "m", "l", ">">>,
      <<"x", "<", "H", "T", "M", "L", ">">>,
      <<"{", "}">>,
      <<"<", "h", "t">>,
      <<>> }

\* what requests.get gives: it raises (connection error, timeout), or a
\* response with a status and a text
Responses ==
    {[raised |-> TRUE, status |-> 0, text |-> <<>>]}
        \cup {[raised |-> FALSE, status |-> st, text |-> b] :
                st \in {200, 404, 503}, b \in Bodies}

\* before the first request
NoResponse == [raised |-> FALSE, status |-> 0, text |-> NoneStr]

\* Accepted without the test of lines 66-67
AcceptedAnyBody(r) == ~r.raised /\ r.status < ErrorStatus

\* lines 62-69: the attempt returns r.text
Accepted(r) == ~r.raised /\ r.status < ErrorStatus /\ LooksValid(r.text)

FetchInit ==
    /\ fpc = "loop"
    /\ max_retries \in 0..MaxRetriesArg
    /\ attempt = 0
    /\ requests = 0
    /\ slept = <<>>
    /\ response = NoResponse
    /\ fret = NotReturned

FetchIdle ==
    /\ fpc = "idle"
    /\ max_retries = 0
    /\ attempt = 0
    /\ requests = 0
    /\ slept = <<>>
    /\ response = NoResponse
    /\ fret = NotReturned

notFetch == <<normVars, scrapeVars, htmlVars, rankVars, searchVars>>

\* line 57: range(max_retries) has another value for attempt
InRange(a, mr) == a < mr

\* line 73: the failed attempt was not the last one
RetriesLeft(a, mr) == a < mr - 1

\* FetchAttempt with max_retries counted as the retries after a first attempt
FetchAttemptOneMore ==
    /\ fpc = "loop"
    /\ attempt <= max_retries
    /\ requests' = requests + 1
    /\ \E pre \in PreDelays, r \in Responses, backoff \in BackoffDelays :
         /\ response' = r
         /\ IF Accepted(r)
            THEN /\ slept' = Append(slept, pre)
                 /\ fret' = r.text
                 /\ fpc' = "done"
                 /\ attempt' = attempt
            ELSE IF attempt < max_retries
            THEN /\ slept' = slept \o <<pre, backoff>>
                 /\ fret' = fret
                 /\ fpc' = fpc
                 /\ attempt' = attempt + 1
            ELSE /\ slept' = Append(slept, pre)
                 /\ fret' = NoneStr
                 /\ fpc' = "done"
                 /\ attempt' = attempt
    /\ UNCHANGED max_retries
    /\ UNCHANGED <<normVars, scrapeVars, htmlVars, rankVars, searchVars>>

\* FetchAttempt with the backoff slept after the last failed attempt too
FetchAttemptAlwaysBacksOff ==
    /\ fpc = "loop"
    /\ InRange(attempt, max_retries)
    /\ requests' = requests + 1
    /\ \E pre \in PreDelays, r \in Responses, backoff \in BackoffDelays :
         /\ response' = r
         /\ IF Accepted(r)
            THEN /\ slept' = Append(slept, pre)
                 /\ fret' = r.text
                 /\ fpc' = "done"
                 /\ attempt' = attempt
            ELSE IF RetriesLeft(attempt, max_retries)
            THEN /\ slept' = slept \o <<pre, backoff>>
                 /\ fret' = fret
                 /\ fpc' = fpc
                 /\ attempt' = attempt + 1
            ELSE /\ slept' = slept \o <<pre, backoff>>
                 /\ fret' = NoneStr
                 /\ fpc' = "done"
                 /\ attempt' = attempt
    /\ UNCHANGED max_retries
    /\ UNCHANGED <<normVars, scrapeVars, htmlVars, rankVars, searchVars>>

\* lines 57-79, one iteration: the short sleep, the request, then the return
\* of the text, or the backoff sleep and the next attempt, or the return of None
FetchAttempt ==
    /\ fpc = "loop"
    /\ InRange(attempt, max_retries)
    /\ requests' = requests + 1
    /\ \E pre \in PreDelays, r \in Responses, backoff \in BackoffDelays :
         /\ response' = r
         /\ IF Accepted(r)
            THEN /\ slept' = Append(slept, pre)
                 /\ fret' = r.text
                 /\ fpc' = "done"
                 /\ attempt' = attempt
            ELSE IF RetriesLeft(attempt, max_retries)
            THEN /\ slept' = slept \o <<pre, backoff>>
                 /\ fret' = fret
                 /\ fpc' = fpc
                 /\ attempt' = attempt + 1
            ELSE /\ slept' = Append(slept, pre)
                 /\ fret' = NoneStr
                 /\ fpc' = "done"
                 /\ attempt' = attempt
    /\ UNCHANGED max_retries
    /\ UNCHANGED notFetch

\* line 57 with nothing left in range(max_retries): the function ends without a
\* return statement and gives None
FetchLoopOver ==
    /\ fpc = "loop"
    /\ ~InRange(attempt, max_retries)
    /\ fret' = NoneStr
    /\ fpc' = "done"
    /\ UNCHANGED <<max_retries, attempt, requests, slept, response>>
    /\ UNCHANGED notFetch

FetchNext == FetchAttempt \/ FetchLoopOver

(***************************************************************************)
(* app.py: the listings comparable to the estimated price                  *)
(*   listings  what the scrape returned; a listing is [title, price], the  *)
(*             title standing for all the fields that are only displayed   *)
(*   price     the estimated price, tol the tolerance slider (percent)     *)
(*   low100, high100   100 * low and 100 * high of lines 243-244, so that  *)
(*             the band is compared in exact arithmetic                    *)
(***************************************************************************)
\* longest list over all of PriceValues
MaxListings == 3
\* listings beyond 10 in the long lists
LongExtra == 1
\* results[:10]
TopN == 10

PriceValues == {Null, 0, 80, 120, 150, 400000, 450000, 650000}
LongPriceValues == {120, 150}
RefPrices == {-100, 0, 100, 500000}
Tolerances == {20, 50}

Tagged(ps) == [i \in 1..Len(ps) |-> [title |-> i, price |-> ps[i]]]

RECURSIVE SeqsOfLen(_, _)
SeqsOfLen(S, n) ==
    IF n = 0 THEN {<<>>}
    ELSE {Append(t, c) : t \in SeqsOfLen(S, n - 1), c \in S}

\* short lists over every kind of price, and lists of more than TopN listings:
\* one with no usable price, then priced ones
RankListings ==
    {Tagged(ps) : ps \in SeqsUpTo(PriceValues, MaxListings)}
        \cup {Tagged(<<first>> \o ps) :
                first \in {Null, 0},
                ps \in UNION {SeqsOfLen(LongPriceValues, TopN + k) : k \in 0..LongExtra}}

\* InBand with the ends of the band left out
InBandStrict(l, lo100, hi100) ==
    l.price # Null /\ lo100 < 100 * l.price /\ 100 * l.price < hi100

\* line 245: l.get("price") is not None and low <= l["price"] <= high
InBand(l, lo100, hi100) ==
    l.price # Null /\ lo100 <= 100 * l.price /\ 100 * l.price <= hi100

\* line 251: l.get('price')
HasPrice(l) == TruthyInt(l.price)

\* Distance without abs
DistanceSigned(l, ref) == l.price - ref

\* line 253: the sort key abs(x['price'] - price)
Distance(l, ref) ==
    IF l.price >= ref THEN l.price - ref ELSE ref - l.price

\* line 253: sorted(valid_listings, key=...), a stable sort
RECURSIVE InsertByKey(_, _, _)
InsertByKey(sorted, l, ref) ==
    IF sorted = <<>> THEN <<l>>
    ELSE IF Distance(Head(sorted), ref) <= Distance(l, ref)
    THEN <<Head(sorted)>> \o InsertByKey(Tail(sorted), l, ref)
    ELSE <<l>> \o sorted

RECURSIVE SortedByDistance(_, _)
SortedByDistance(ls, ref) ==
    IF ls = <<>> THEN <<>>
    ELSE InsertByKey(SortedByDistance(SubSeq(ls, 1, Len(ls) - 1), ref),
                     ls[Len(ls)], ref)

RankInit ==
    /\ rpc = "scraped"
    /\ listings \in RankListings
    /\ price \in RefPrices
    /\ tol \in Tolerances
    /\ low100 = 0
    /\ high100 = 0
    /\ filtered = <<>>
    /\ results = <<>>

RankIdle ==
    /\ rpc = "idle"
    /\ listings = <<>>
    /\ price = 0
    /\ tol = 0
    /\ low100 = 0
    /\ high100 = 0
    /\ filtered = <<>>
    /\ results = <<>>

notRank == <<normVars, scrapeVars, htmlVars, fetchVars, searchVars>>

\* lines 227-234: nothing was scraped, a warning is shown
NoListings ==
    /\ rpc = "scraped"
    /\ listings = <<>>
    /\ rpc' = "warned"
    /\ UNCHANGED <<listings, price, tol, low100, high100, filtered, results>>
    /\ UNCHANGED notRank

\* lines 243-247: the tolerance band and the listings inside it
FilterByPrice ==
    /\ rpc = "scraped"
    /\ listings # <<>>
    /\ low100' = price * (100 - tol)
    /\ high100' = price * (100 + tol)
    /\ filtered' = SelectSeq(listings, LAMBDA l : InBand(l, low100', high100'))
    /\ rpc' = "filtered"
    /\ UNCHANGED <<listings, price, tol, results>>
    /\ UNCHANGED notRank

\* SelectResults with the listings of the band ranked by distance as well
SelectResultsRanksBand ==
    /\ rpc = "filtered"
    /\ results' =
         IF filtered = <<>>
         THEN LET valid_listings == SelectSeq(listings, HasPrice)
              IN  IF valid_listings # <<>>
                  THEN Take(SortedByDistance(valid_listings, price), TopN)
                  ELSE <<>>
         ELSE Take(SortedByDistance(filtered, price), TopN)
    /\ rpc' = "shown"
    /\ UNCHANGED <<listings, price, tol, low100, high100, filtered>>
    /\ UNCHANGED <<normVars, scrapeVars, htmlVars, fetchVars, searchVars>>

\* lines 249-259: the 10 closest priced listings when none is in the band,
\* else the first 10 of the band
SelectResults ==
    /\ rpc = "filtered"
    /\ results' =
         IF filtered = <<>>
         THEN LET valid_listings == SelectSeq(listings, HasPrice)
              IN  IF valid_listings # <<>>
                  THEN Take(SortedByDistance(valid_listings, price), TopN)
                  ELSE <<>>
         ELSE Take(filtered, TopN)
    /\ rpc' = "shown"
    /\ UNCHANGED <<listings, price, tol, low100, high100, filtered>>
    /\ UNCHANGED notRank

RankNext == NoListings \/ FilterByPrice \/ SelectResults

(***************************************************************************)
(* parse_listings_from_html: the rows of a page (lines 110-153)            *)
(* A container is described by what BeautifulSoup gives for it:            *)
(*   strings  its text nodes, in document order                            *)
(*   tags     for each of h2, h3, h1, a, span, div: get_text(strip=True)   *)
(*            of the first such descendant, NoneStr when there is none     *)
(***************************************************************************)
Letters ==
    {"a", "b", "c", "d", "e", "f", "g", "h", "i", "j", "k", "l", "m", "n", "o",
     "p", "q", "r", "s", "t", "u", "v", "w", "x", "y", "z",
     "A", "B", "C", "D", "E", "F", "G", "H", "I", "J", "K", "L", "M", "N", "O",
     "P", "Q", "R", "S", "T", "U", "V", "W", "X", "Y", "Z"}
\* \w, and \b before position i and after position j of t
IsWordChar(c) == c \in Digits \cup Letters \cup {"_"}
BoundaryBefore(t, i) == i = 1 \/ ~IsWordChar(t[i - 1])
BoundaryAfter(t, j) == j = Len(t) \/ ~IsWordChar(t[j + 1])

\* line 114: re.compile(r"₹|\bINR\b|Rs\.|rs\.|\d{2,}") finds a match in t
InrAt(t, i) ==
    /\ i + 2 <= Len(t)
    /\ SubSeq(t, i, i + 2) = <<"I", "N", "R">>
    /\ BoundaryBefore(t, i) /\ BoundaryAfter(t, i + 2)
PricePattern(t) ==
    \/ Contains(<<"₹">>, t)
    \/ \E i \in 1..Len(t) : InrAt(t, i)
    \/ Contains(<<"R", "s", ".">>, t)
    \/ Contains(<<"r", "s", ".">>, t)
    \/ \E i \in 1..(Len(t) - 1) : t[i] \in Digits /\ t[i + 1] \in Digits

\* line 123: re.compile(r"\d[\d,]*\s*km|\d[\d,]*\s*kms", re.I) finds a match
\* in t ("km" at i, the digit at a, the digits and commas up to b)
KmAt(t, i) ==
    /\ i + 1 <= Len(t)
    /\ t[i] \in {"k", "K"} /\ t[i + 1] \in {"m", "M"}
    /\ \E a \in 1..(i - 1) :
         /\ t[a] \in Digits
         /\ \E b \in a..(i - 1) :
              /\ \A k \in (a + 1)..b : t[k] \in Digits \cup {","}
              /\ \A k \in (b + 1)..(i - 1) : t[k] \in Whitespace
KmPattern(t) == \E i \in 1..Len(t) : KmAt(t, i)

\* line 142: re.search(r"\b(19|20)\d{2}\b", t), the start of the first match
YearAt(t, i) ==
    /\ i + 3 <= Len(t)
    /\ SubSeq(t, i, i + 1) \in {<<"1", "9">>, <<"2", "0">>}
    /\ t[i + 2] \in Digits /\ t[i + 3] \in Digits
    /\ BoundaryBefore(t, i) /\ BoundaryAfter(t, i + 3)
\* lines 142-143
YearOf(t) ==
    IF \E i \in 1..Len(t) : YearAt(t, i)
    THEN LET m == CHOOSE i \in 1..Len(t) :
                      YearAt(t, i) /\ \A j \in 1..(i - 1) : ~YearAt(t, j)
         IN  IntOf(SubSeq(t, m, m + 3))
    ELSE Null

\* sep.join(parts)
RECURSIVE JoinWith(_, _)
JoinWith(sep, parts) ==
    IF parts = <<>> THEN <<>>
    ELSE IF Len(parts) = 1 THEN Head(parts)
    ELSE Head(parts) \o sep \o JoinWith(sep, Tail(parts))

\* c.get_text(" ", strip=True) (line 111) and c.text (line 108)
GetText(strings) ==
    JoinWith(<<" ">>,
             SelectSeq([i \in 1..Len(strings) |-> Strip(strings[i])],
                       LAMBDA x : x # <<>>))
TextOf(strings) == Join(strings)

\* lines 116-120 and 125-129: the first truthy cleaned value, else None
RECURSIVE FirstValue(_)
FirstValue(vals) ==
    IF vals = <<>> THEN Null
    ELSE IF TruthyInt(Head(vals)) THEN Head(vals)
    ELSE FirstValue(Tail(vals))

\* lines 132-139
TitleMinLen == 3
SnippetLen == 120
Ellipsis == <<".", ".", ".">>
RECURSIVE FirstHeading(_, _)
FirstHeading(tags, i) ==
    IF i > Len(tags) THEN NoneStr
    ELSE IF tags[i] # NoneStr /\ Len(tags[i]) > TitleMinLen THEN tags[i]
    ELSE FirstHeading(tags, i + 1)
TitleOf(tags, text) ==
    LET title == FirstHeading(tags, 1)
    IN  IF TruthyStr(title) THEN title
        ELSE IF TruthyStr(text) THEN Take(text, SnippetLen) \o Ellipsis
        ELSE NoneStr

\* lines 110-151, one iteration: the row of container c
RowOf(c) ==
    LET text == GetText(c.strings)
        price_candidates == SelectSeq(c.strings, PricePattern)
        km_candidates == SelectSeq(c.strings, KmPattern)
    IN  [title    |-> TitleOf(c.tags, text),
         price    |-> FirstValue([i \in 1..Len(price_candidates) |->
                                      clean_price(price_candidates[i])]),
         km       |-> FirstValue([i \in 1..Len(km_candidates) |->
                                      clean_km(km_candidates[i])]),
         year     |-> YearOf(text),
         raw_text |-> text]

\* lines 98-108 as a function of the page
RECURSIVE FirstCandidate(_, _)
FirstCandidate(d, i) ==
    IF i > NCand THEN <<>>
    ELSE IF Found(i, d.cands[i]) # <<>> THEN Found(i, d.cands[i])
    ELSE FirstCandidate(d, i + 1)
HtmlContainers(d) ==
    LET found == FirstCandidate(d, 1)
    IN  IF found = <<>> THEN LinkFallback(d) ELSE found

\* parse_listings_from_html of a page whose k-th element of a kind is
\* d.cards[k]: the rows of the DataFrame returned
ParseListings(d) ==
    LET cs == HtmlContainers(d)
    IN  [i \in 1..Len(cs) |-> RowOf(d.cards[cs[i].k])]

\* containers: a listing with a price node; one whose first node with two
\* digits is its name; one whose only price node cleans to 0; one without text
NoTags == <<NoneStr, NoneStr, NoneStr, NoneStr, NoneStr, NoneStr>>
PricedCard ==
    [strings |-> << <<"S", "w", "i", "f", "t">>, <<" ">>,
                    <<"₹", " ", "4", ",", "5", "0", ",", "0", "0", "0">>,
                    <<"4", "5", ",", "0", "0", "0", " ", "K", "m">>,
                    <<"2", "0", "1", "5">> >>,
     tags |-> <<<<"S", "w", "i", "f", "t">>, NoneStr, NoneStr, NoneStr, NoneStr,
                NoneStr>>]
NamePricedCard ==
    [strings |-> << <<"i", "2", "0", " ", "2", "0", "1", "9">>,
                    <<"R", "s", ".", " ", "9", "0">> >>,
     tags |-> <<NoneStr, <<"i", "2", "0">>, NoneStr, NoneStr,
                <<"i", "2", "0", " ", "2", "0", "1", "9">>, NoneStr>>]
UnpricedCard ==
    [strings |-> << <<"C", "a", "l", "l">>, <<"₹", " ", "0">> >>,
     tags |-> NoTags]
BlankCard == [strings |-> << <<" ">> >>, tags |-> NoTags]
Cards == {PricedCard, NamePricedCard, UnpricedCard}

\* pages: the w-th entry of possible_containers finds the cards; or no entry
\* finds anything and the cards are the <a href> elements of the page
CandidatePage(w, cards) ==
    [cands |-> [c \in 1..NCand |-> IF c = w THEN Len(cards) ELSE 0],
     anchors |-> <<>>,
     cards |-> cards]
LinkPage(cards) ==
    [cands |-> [c \in 1..NCand |-> 0],
     anchors |-> [k \in 1..Len(cards) |-> Len(Strip(TextOf(cards[k].strings)))],
     cards |-> cards]
SearchPages ==
    {CandidatePage(1, cs) : cs \in SeqsUpTo(Cards, MaxItems) \ {<<>>}}
        \cup {CandidatePage(NCand, <<c>>) : c \in Cards}
        \cup {LinkPage(cs) : cs \in SeqsUpTo(Cards \cup {BlankCard}, MaxItems)}
Parsed == [d \in SearchPages |-> ParseListings(d)]

(***************************************************************************)
(* fetch_html as a function of the responses the server gives to the       *)
(* successive requests (lines 57-79)                                       *)
(***************************************************************************)
RECURSIVE FetchHtml(_, _, _)
FetchHtml(rs, a, mr) ==
    IF ~InRange(a, mr) THEN NoneStr
    ELSE IF Accepted(rs[a + 1]) THEN rs[a + 1].text
    ELSE IF RetriesLeft(a, mr) THEN FetchHtml(rs, a + 1, mr)
    ELSE NoneStr

\* the responses of one call: an error, a page, a body without markup, an
\* error page
SearchResponses ==
    {[raised |-> TRUE, status |-> 0, text |-> <<>>],
     [raised |-> FALSE, status |-> 200, text |-> <<"<", "h", "t", "m", "l", ">">>],
     [raised |-> FALSE, status |-> 200, text |-> <<"{", "}">>],
     [raised |-> FALSE, status |-> 503, text |-> <<"<", "h", "t", "m", "l", ">">>]}
SearchScripts == [1..DefaultMaxRetries -> SearchResponses]
Fetched == {FetchHtml(rs, 0, DefaultMaxRetries) : rs \in SearchScripts}

(***************************************************************************)
(* scrape_search_results (lines 155-182)                                   *)
(*   spc       loop -> fetched -> loop ... -> done                         *)
(*   spages    the pages argument                                          *)
(*   spage     the loop variable of line 164                               *)
(*   html      what fetch_html returned for the page                       *)
(*   all_rows  the non-empty DataFrames of the pages, each a sequence of   *)
(*             rows                                                        *)
(*   combined  the rows of the DataFrame returned                          *)
(*   pageLog   for each page fetch_html was called for, in call order: the *)
(*             page number, whether a document came back, and the rows     *)
(*             parse_listings_from_html gave                               *)
(***************************************************************************)
\* pd.concat(frames, ignore_index=True)
RECURSIVE Concat(_)
Concat(frames) ==
    IF frames = <<>> THEN <<>> ELSE Head(frames) \o Concat(Tail(frames))

\* df.dropna(subset=["price"]).reset_index(drop=True)
DropNa(rows) == SelectSeq(rows, LAMBDA r : r.price # Null)

SearchInit ==
    /\ spc = "loop"
    /\ spages \in 1..MaxPages
    /\ spage = 1
    /\ html = NoneStr
    /\ all_rows = <<>>
    /\ combined = <<>>
    /\ pageLog = <<>>

SearchIdle ==
    /\ spc = "idle"
    /\ spages = 0
    /\ spage = 0
    /\ html = NoneStr
    /\ all_rows = <<>>
    /\ combined = <<>>
    /\ pageLog = <<>>

notSearch == <<normVars, scrapeVars, htmlVars, fetchVars, rankVars>>

\* SearchFetch with the loop left at the first page that could not be fetched
SearchFetchStopsAtFailure ==
    /\ spc = "loop"
    /\ spage <= spages
    /\ \E h \in Fetched :
         /\ html' = h
         /\ IF ~TruthyStr(h)
            THEN /\ spc' = "loop"
                 /\ spage' = spages + 1
                 /\ pageLog' = Append(pageLog,
                                 [page |-> spage, ok |-> FALSE, rows |-> <<>>])
            ELSE /\ spc' = "fetched"
                 /\ spage' = spage
                 /\ pageLog' = pageLog
    /\ UNCHANGED <<spages, all_rows, combined>>
    /\ UNCHANGED <<normVars, scrapeVars, htmlVars, fetchVars, rankVars>>

\* lines 164-170: fetch_html of the next page; without a document the loop
\* goes on with the page after it
SearchFetch ==
    /\ spc = "loop"
    /\ spage <= spages
    /\ \E h \in Fetched :
         /\ html' = h
         /\ IF ~TruthyStr(h)
            THEN /\ spc' = "loop"
                 /\ spage' = spage + 1
                 /\ pageLog' = Append(pageLog,
                                 [page |-> spage, ok |-> FALSE, rows |-> <<>>])
            ELSE /\ spc' = "fetched"
                 /\ spage' = spage
                 /\ pageLog' = pageLog
    /\ UNCHANGED <<spages, all_rows, combined>>
    /\ UNCHANGED notSearch

\* lines 171-174: the document is parsed as one of SearchPages; a DataFrame
\* with rows is kept
SearchParse ==
    /\ spc = "fetched"
    /\ \E d \in SearchPages :
         LET df_page == Parsed[d]
         IN  /\ all_rows' = IF df_page # <<>> THEN Append(all_rows, df_page)
                            ELSE all_rows
             /\ pageLog' = Append(pageLog,
                             [page |-> spage, ok |-> TRUE, rows |-> df_page])
    /\ spc' = "loop"
    /\ spage' = spage + 1
    /\ UNCHANGED <<spages, html, combined>>
    /\ UNCHANGED notSearch

\* lines 176-182
SearchReturn ==
    /\ spc = "loop"
    /\ spage > spages
    /\ combined' = IF all_rows # <<>> THEN DropNa(Concat(all_rows)) ELSE <<>>
    /\ spc' = "done"
    /\ UNCHANGED <<spages, spage, html, all_rows, pageLog>>
    /\ UNCHANGED notSearch

SearchNext == SearchFetch \/ SearchParse \/ SearchReturn

(***************************************************************************)
(* Specifications                                                          *)
(***************************************************************************)
\* one call of scrape_olx_listings
InitScrape ==
    ScrapeInit /\ NormIdle /\ HtmlIdle /\ FetchIdle /\ RankIdle /\ SearchIdle
SpecScrape == InitScrape /\ [][ScrapeNext]_vars

\* one call of scrape_search_results
InitSearch ==
    SearchInit /\ NormIdle /\ ScrapeIdle /\ HtmlIdle /\ FetchIdle /\ RankIdle
SpecSearch == InitSearch /\ [][SearchNext]_vars

\* one call of fetch_html
InitFetch ==
    FetchInit /\ NormIdle /\ ScrapeIdle /\ HtmlIdle /\ RankIdle /\ SearchIdle
SpecFetch == InitFetch /\ [][FetchNext]_vars

\* one run of the comparable-listings search of app.py on scraped listings
InitRank ==
    RankInit /\ NormIdle /\ ScrapeIdle /\ HtmlIdle /\ FetchIdle /\ SearchIdle
SpecRank == InitRank /\ [][RankNext]_vars

\* container resolution on any page: the selector loop of scrape_olx_listings
\* on the first page of a one-page scrape, or that of parse_listings_from_html
ResolveInit ==
    /\ pc = "resolve"
    /\ pages = 1
    /\ headless \in BOOLEAN
    /\ page = 1
    /\ driver = "running"
    /\ startAttempts = 1
    /\ quitCount = 0
    /\ navigated = <<1>>
    /\ failedPage = 0
    /\ marker \in {"present", "timeout"}
    /\ doc \in Docs
    /\ sel = 1
    /\ evaluated = <<>>
    /\ items = <<>>
    /\ idx = 0
    /\ all_listings = <<>>
    /\ emitted = <<>>
    /\ outcome = "none"
    /\ failures = 0
    /\ links \in 0..MaxItems
InitResolve ==
    /\ \/ ResolveInit /\ HtmlIdle
       \/ ScrapeIdle /\ HtmlInit
    /\ NormIdle /\ FetchIdle /\ RankIdle /\ SearchIdle
ResolveNext ==
    \/ TrySelector
    \/ SelectorsExhausted
    \/ HtmlTryCandidate
    \/ HtmlCandidatesExhausted
    \/ HtmlAfterLoop
SpecResolve == InitResolve /\ [][ResolveNext]_vars

\* one call of each text normalizer
InitNorm ==
    NormInit /\ ScrapeIdle /\ HtmlIdle /\ FetchIdle /\ RankIdle /\ SearchIdle
NormNext == Normalize
SpecNorm == InitNorm /\ [][NormNext]_vars

(***************************************************************************)
(* Claims about scrape_olx_listings (SpecScrape)                           *)
(***************************************************************************)
IsPrefix(s, t) == Len(s) <= Len(t) /\ SubSeq(t, 1, Len(s)) = s
UpTo(n) == [i \in 1..n |-> i]

\* C1: once the driver has started, driver.quit is called exactly once before
\* the call returns or raises, and not before the page loop has ended: no quit
\* while pages are processed, one quit when the call is over, on the normal
\* path, on a page without containers and on an exception.
C1_QuitExactlyOnce ==
    /\ quitCount <= 1
    /\ driver = "none" => quitCount = 0
    /\ pc \in {"loop", "wait", "resolve", "resolved", "items", "except", "finally"}
         => driver = "running" /\ quitCount = 0
    /\ (pc = "done" /\ driver # "none")
         => driver = "quit" /\ quitCount = 1 /\ outcome \in {"returned", "raised"}

\* C1 witness: the call has raised out of the second page's navigation, after
\* a first page that was processed, and the driver was quit once
C1_Witness ==
    /\ pc = "done" /\ outcome = "raised" /\ failedPage = 2
    /\ quitCount = 1 /\ driver = "quit"

\* C2 as stated: a failed navigation does not abort the run: all pages up to
\* `pages` are fetched and the call returns its records.
C2_FailedPageIsSkipped ==
    (pc = "done" /\ failedPage # 0)
        => outcome = "returned" /\ navigated = UpTo(pages)

\* C2 amended: a failed navigation of page k aborts the run: no later page is
\* fetched, the driver is quit, the exception reaches the caller and no list
\* is returned; a call that returns has fetched every page 1..pages in order.
C2_FailedPageAborts ==
    /\ failedPage # 0 =>
         /\ navigated = UpTo(failedPage)
         /\ pc \in {"except", "finally", "done"}
         /\ outcome \in {"none", "raising", "raised"}
         /\ pc = "done" => outcome = "raised" /\ quitCount = 1
    /\ outcome = "returned" => failedPage = 0 /\ navigated = UpTo(pages)

\* C2 witness: page 1 gave records, the navigation of page 2 failed, and the
\* call raised with page 1's records never returned
C2_Witness ==
    /\ pc = "done" /\ outcome = "raised"
    /\ failedPage = 2 /\ pages >= 2 /\ navigated = <<1, 2>>
    /\ all_listings # <<>>

\* C3: a driver that cannot be started ends the call with an error after a
\* single start attempt; no page is navigated to, no record is extracted and
\* no list is returned.
C3_StartFailureIsFatal ==
    /\ startAttempts <= 1
    /\ pc # "call" => startAttempts = 1
    /\ (driver = "none" /\ pc = "done") =>
         /\ outcome \in {"RuntimeError", "start_error"}
         /\ navigated = <<>>
         /\ all_listings = <<>>
         /\ quitCount = 0
    /\ outcome \in {"RuntimeError", "start_error"} => driver = "none" /\ pc = "done"

\* C3 witness: the start raised WebDriverException and the call raised
\* RuntimeError
C3_Witness ==
    pc = "done" /\ outcome = "RuntimeError" /\ startAttempts = 1

\* C4: every record of the accumulator, at every point of the run, was
\* appended with a resolved (non-empty) title or a resolved price.
C4_TitleOrPrice ==
    /\ Len(emitted) = Len(all_listings)
    /\ \A i \in 1..Len(all_listings) :
         /\ all_listings[i].price = emitted[i].price
         /\ TruthyStr(emitted[i].title) \/ emitted[i].price # Null

\* C4 witness: the returned list holds a record without a resolved title and a
\* record without a resolved price
C4_Witness ==
    /\ pc = "done" /\ outcome = "returned"
    /\ \E i \in 1..Len(emitted) : ~TruthyStr(emitted[i].title)
    /\ \E i \in 1..Len(emitted) : emitted[i].price = Null

\* C5: the accumulator is append-only: every step leaves it unchanged or adds
\* one record at its end, while an element of the current page is processed;
\* so the records stand in ascending page order, in processing order within a
\* page, and nothing is removed, reordered or merged.
C5_AppendStep ==
    /\ IsPrefix(all_listings, all_listings')
    /\ all_listings' # all_listings =>
         /\ pc = "items" /\ idx' = idx + 1 /\ page' = page
         /\ Len(all_listings') = Len(all_listings) + 1
         /\ emitted'[Len(all_listings')].page = page

C5_PageOrder ==
    /\ Len(emitted) = Len(all_listings)
    /\ \A i, j \in 1..Len(emitted) : i < j => emitted[i].page <= emitted[j].page

C5_AppendOnly == [][C5_AppendStep]_vars /\ []C5_PageOrder

\* C5 witness: the same listing was extracted on page 1 and on page 2 and is
\* in the returned list twice
C5_Witness ==
    /\ pc = "done" /\ outcome = "returned"
    /\ \E i, j \in 1..Len(all_listings) :
         /\ i < j
         /\ all_listings[i] = all_listings[j]
         /\ emitted[i].page = 1 /\ emitted[j].page = 2

(***************************************************************************)
(* Claims about fetch_html (SpecFetch)                                     *)
(***************************************************************************)
\* C6: fetch_html makes at most max_retries requests for a URL, 3 with the
\* default; it returns at the first accepted response, with that response's
\* text, and after max_retries failed attempts it returns None, with no
\* further request.
C6_AtMostMaxRetries ==
    /\ requests <= max_retries
    /\ max_retries = DefaultMaxRetries => requests <= 3
    /\ fpc = "loop" => requests = attempt /\ fret = NotReturned
    /\ fpc = "done" =>
         /\ fret # NotReturned
         /\ fret # NoneStr => requests = attempt + 1 /\ LooksValid(fret)
         /\ fret = NoneStr => requests = max_retries

\* C6 witness: the default of 3 attempts, all failed: None after 3 requests
C6_Witness ==
    /\ fpc = "done" /\ max_retries = DefaultMaxRetries
    /\ fret = NoneStr /\ requests = 3

(***************************************************************************)
(* Claims about the comparable listings of app.py (SpecRank)               *)
(***************************************************************************)
InSeq(x, t) == \E i \in 1..Len(t) : t[i] = x
AbsDiff(a, b) == IF a >= b THEN a - b ELSE b - a

\* C7: a listing is kept by the tolerance filter iff its price is not null and
\* price*(1 - tol/100) <= its price <= price*(1 + tol/100); the kept listings
\* stand in scrape order; for price 500000 and tol 20 the band is
\* [400000, 600000], 450000 is kept and 650000 is not.
C7_ToleranceFilter ==
    rpc \in {"filtered", "shown"} =>
        /\ \A i \in 1..Len(listings) :
             InSeq(listings[i], filtered) <=>
                 /\ listings[i].price # Null
                 /\ price * (100 - tol) <= 100 * listings[i].price
                 /\ 100 * listings[i].price <= price * (100 + tol)
        /\ \A i \in 1..Len(filtered) : InSeq(filtered[i], listings)
        /\ \A i, j \in 1..Len(filtered) : i < j => filtered[i].title < filtered[j].title
        /\ (price = 500000 /\ tol = 20) =>
             /\ low100 = 100 * 400000 /\ high100 = 100 * 600000
             /\ \A i \in 1..Len(listings) :
                  /\ listings[i].price = 450000 => InSeq(listings[i], filtered)
                  /\ listings[i].price = 650000 => ~InSeq(listings[i], filtered)

\* C7 witness: price 500000, tol 20; a listing at 650000, one without a price
\* and one at 450000 were filtered, and only the last was kept
C7_Witness ==
    /\ rpc = "filtered" /\ price = 500000 /\ tol = 20
    /\ Len(listings) = 3 /\ Len(filtered) = 1
    /\ listings[1].price = 650000 /\ listings[2].price = Null
    /\ listings[3].price = 450000 /\ filtered[1] = listings[3]

\* C8 as stated: with no listing in the band, the result is the listings with a
\* non-null price, ascending by |price - reference|, cut to 10: no null price in
\* it, and no listing with a price left out that is strictly closer than one
\* in it.
C8_ClosestOfNonNull ==
    (rpc = "shown" /\ filtered = <<>>) =>
        /\ \A i \in 1..Len(results) :
             InSeq(results[i], listings) /\ results[i].price # Null
        /\ \A i, j \in 1..Len(results) :
             i < j => /\ results[i].title # results[j].title
                      /\ AbsDiff(results[i].price, price) <= AbsDiff(results[j].price, price)
        /\ Len(results) =
             Min(TopN, Cardinality({i \in 1..Len(listings) : listings[i].price # Null}))
        /\ \A i \in 1..Len(listings) :
             (listings[i].price # Null /\ ~InSeq(listings[i], results)) =>
                 \A j \in 1..Len(results) :
                     AbsDiff(listings[i].price, price) >= AbsDiff(results[j].price, price)

\* C8 amended: the same with "a price that is neither null nor 0" for "a
\* non-null price": listings without a price and listings priced 0 are left out
\* of the ranking.
C8_ClosestOfPriced ==
    (rpc = "shown" /\ filtered = <<>>) =>
        /\ \A i \in 1..Len(results) :
             /\ InSeq(results[i], listings)
             /\ results[i].price # Null /\ results[i].price # 0
        /\ \A i, j \in 1..Len(results) :
             i < j => /\ results[i].title # results[j].title
                      /\ AbsDiff(results[i].price, price) <= AbsDiff(results[j].price, price)
        /\ Len(results) =
             Min(TopN, Cardinality({i \in 1..Len(listings) :
                                      listings[i].price # Null /\ listings[i].price # 0}))
        /\ \A i \in 1..Len(listings) :
             (listings[i].price # Null /\ listings[i].price # 0
                  /\ ~InSeq(listings[i], results)) =>
                 \A j \in 1..Len(results) :
                     AbsDiff(listings[i].price, price) >= AbsDiff(results[j].price, price)

\* C8 witness: no listing in the band, a first listing without a price and more
\* than 10 priced ones at two distances: 10 are shown
C8_Witness ==
    /\ rpc = "shown" /\ filtered = <<>>
    /\ Len(listings) > TopN + 1 /\ listings[1].price = Null
    /\ Len(results) = TopN
    /\ \E i \in 1..Len(listings) : listings[i].price = 120
    /\ \E i \in 1..Len(listings) : listings[i].price = 150

(***************************************************************************)
(* Claims about the text normalizers (SpecNorm)                            *)
(***************************************************************************)
RECURSIVE Pow10(_)
Pow10(n) == IF n = 0 THEN 1 ELSE 10 * Pow10(n - 1)

\* the digits of a text, in order, and the number they spell in base 10
DigitsOf(t) == SelectSeq(t, LAMBDA c : c \in Digits)
RECURSIVE Spelled(_, _)
Spelled(ds, i) ==
    IF i > Len(ds) THEN 0
    ELSE DigitVal(ds[i]) * Pow10(Len(ds) - i) + Spelled(ds, i + 1)
Normalized(t) ==
    IF t = NoneStr \/ DigitsOf(t) = <<>> THEN Null ELSE Spelled(DigitsOf(t), 1)

FirstMatching(d) ==
    IF \E s \in 1..NSel : d[s] > 0
    THEN CHOOSE s \in 1..NSel : d[s] > 0 /\ \A r \in 1..(s - 1) : d[r] <= 0
    ELSE NSel + 1
FirstFound(d) ==
    IF \E c \in 1..NCand : d.cands[c] > 0
    THEN CHOOSE c \in 1..NCand : d.cands[c] > 0 /\ \A r \in 1..(c - 1) : d.cands[r] = 0
    ELSE NCand + 1

\* C10: the candidate queries are tried in table order; the containers are
\* exactly the matches of the first query with a match, nothing of a later
\* query is among them and no later query is evaluated; a page matching only
\* the 3rd candidate gives exactly the matches of the 3rd candidate.
C10_FirstMatchWins ==
    /\ pc = "resolve" => evaluated = UpTo(sel - 1) /\ items = <<>>
    /\ pc = "resolved" =>
         LET w == FirstMatching(doc)
         IN  /\ evaluated = UpTo(Min(w, NSel))
             /\ w <= NSel => /\ Len(items) = doc[w]
                             /\ \A i \in 1..Len(items) : items[i] = [sel |-> w, k |-> i]
             /\ w > NSel => items = <<>>
    /\ hpc = "candidates" => hevaluated = UpTo(htag - 1) /\ containers = <<>>
    /\ hpc \in {"after", "containers"} =>
         LET w == FirstFound(hdoc)
         IN  /\ hevaluated = UpTo(Min(w, NCand))
             /\ w <= NCand => /\ Len(containers) = hdoc.cands[w]
                              /\ \A i \in 1..Len(containers) :
                                   containers[i] = [cand |-> w, k |-> i]

\* C10 witness: a page on which only the 3rd selector matches, twice: the
\* items are these two elements, after selectors 1, 2 and 3 were evaluated
C10_Witness ==
    /\ pc = "resolved"
    /\ doc = [s \in 1..NSel |-> IF s = 3 THEN 2 ELSE 0]
    /\ items = <<[sel |-> 3, k |-> 1], [sel |-> 3, k |-> 2]>>
    /\ evaluated = <<1, 2, 3>>

(***************************************************************************)
(* Claims about the pages and elements of scrape_olx_listings (SpecScrape) *)
(***************************************************************************)
\* C11: an element whose processing raises is skipped alone: the step that
\* meets the failure adds nothing, removes nothing and goes on with the next
\* element of the same page; while elements are left each step processes the
\* next one and keeps the records accumulated so far, and after the last one
\* the page loop goes on with the next page.
C11_Step ==
    /\ failures' = failures + 1 =>
         /\ pc = "items" /\ pc' = "items"
         /\ idx <= Len(items) /\ idx' = idx + 1
         /\ items' = items /\ page' = page
         /\ all_listings' = all_listings
    /\ (pc = "items" /\ idx <= Len(items)) =>
         /\ pc' = "items" /\ idx' = idx + 1
         /\ items' = items /\ page' = page
         /\ IsPrefix(all_listings, all_listings')
    /\ (pc = "items" /\ idx > Len(items)) =>
         /\ pc' = "loop" /\ page' = page + 1
         /\ all_listings' = all_listings

C11_ItemFailureIsLocal ==
    [][C11_Step]_vars /\ [](pc = "items" => failures < idx /\ idx <= Len(items) + 1)

\* C11 witness: on page 2 both elements were processed, one raised and the
\* other gave a record, and the record of page 1 is still in the accumulator
C11_Witness ==
    /\ pc = "items" /\ page = 2
    /\ Len(items) = 2 /\ idx = 3
    /\ failures = 1
    /\ Len(all_listings) = 2
    /\ emitted[1].page = 1 /\ emitted[2].page = 2

(***************************************************************************)
(* Claims about scrape_search_results (SpecSearch)                         *)
(***************************************************************************)
\* the rows of the first n entries of a page log, in log order
RECURSIVE LoggedRows(_, _)
LoggedRows(log, n) ==
    IF n = 0 THEN <<>> ELSE LoggedRows(log, n - 1) \o log[n].rows

\* C12: fetch_html is called for every page 1..pages in ascending order,
\* whatever the earlier fetches gave; a page without a document contributes no
\* row; the rows returned are the rows of the parsed pages in page order and,
\* within a page, in document order, without the rows whose price is None:
\* the k-th row with a price is the k-th row returned.
C12_PricedRowsInPageOrder ==
    spc = "done" =>
        LET rows == LoggedRows(pageLog, Len(pageLog))
            priced == {i \in 1..Len(rows) : rows[i].price # Null}
        IN  /\ Len(pageLog) = spages
            /\ \A p \in 1..spages :
                 /\ pageLog[p].page = p
                 /\ ~pageLog[p].ok => pageLog[p].rows = <<>>
            /\ Len(combined) = Cardinality(priced)
            /\ \A i \in priced :
                 combined[Cardinality({j \in priced : j <= i})] = rows[i]

\* C12 witness: page 1 could not be fetched, page 2 gave a row without a price
\* and then a row with a price, and the priced row alone is returned
C12_Witness ==
    /\ spc = "done" /\ spages = 2
    /\ ~pageLog[1].ok
    /\ pageLog[2].ok /\ Len(pageLog[2].rows) = 2
    /\ pageLog[2].rows[1].price = Null
    /\ pageLog[2].rows[2].price = 450000
    /\ combined = <<pageLog[2].rows[2]>>

\* C13 as claimed: when no selector of the list matched on a page, the items
\* are the link elements of the page with a short non-empty text.
C13_LinkFallback ==
    (pc = "resolved" /\ \A s \in 1..NSel : doc[s] <= 0) =>
        items = [k \in 1..links |-> [sel |-> 0, k |-> k]]

\* C13, amended: scrape_olx_listings has no fallback to the link elements.
\* When no selector of the list matched, items stays empty whatever links the
\* page has, no element of the page is processed and no record is added: the
\* next step goes to the next page, or to the exception handler when the
\* driver.title of the visible-browser branch raises.  Elements that are
\* processed were always matched by a selector of the list.
C13_Step ==
    (pc = "resolved" /\ \A s \in 1..NSel : doc[s] <= 0) =>
        /\ all_listings' = all_listings
        /\ items' = <<>>
        /\ \/ pc' = "loop" /\ page' = page + 1
           \/ pc' = "except" /\ page' = page /\ ~headless

C13_State ==
    /\ (pc = "resolved" /\ \A s \in 1..NSel : doc[s] <= 0) =>
         items = <<>> /\ evaluated = UpTo(NSel)
    /\ pc = "items" =>
         /\ items # <<>>
         /\ \A i \in 1..Len(items) : items[i].sel \in 1..NSel

C13_NoLinkFallback == [][C13_Step]_vars /\ []C13_State

\* C13 witness: page 1 had link elements and no selector matched on it; all
\* selectors were evaluated, nothing was extracted and the loop is at page 2
C13_Witness ==
    /\ pc = "loop" /\ page = 2 /\ pages = 2
    /\ links > 0
    /\ \A s \in 1..NSel : doc[s] <= 0
    /\ evaluated = UpTo(NSel)
    /\ items = <<>>
    /\ all_listings = <<>>

\* C14 as claimed: a record appended without a resolved title, its price being
\* resolved, has a null title field.
C14_NullTitle ==
    \A i \in 1..Len(all_listings) :
        (~TruthyStr(emitted[i].title) /\ emitted[i].price # Null)
            => all_listings[i].title = NoneStr

\* C14, amended: an element whose title queries all fail while its price
\* resolves to a number other than 0 still gives one record, and the title
\* field of that record is the first line of the element's stripped text,
\* never null; with no title and a price of 0 or None the element gives no
\* record.  Every record in the accumulator that was appended without a
\* resolved title has the first line of its raw text as its title.
C14_TitleFromText ==
    /\ \A it \in Elements :
         (it.text # Raises /\ TruthyStr(Strip(it.text))
            /\ ~TruthyStr(Extracted[it].resolved.title)) =>
             IF TruthyInt(Extracted[it].resolved.price)
             THEN /\ Len(Extracted[it].recs) = 1
                  /\ Extracted[it].recs[1].title = FirstLine(Strip(it.text))
                  /\ Extracted[it].recs[1].price = Extracted[it].resolved.price
             ELSE Extracted[it].recs = <<>>
    /\ \A i \in 1..Len(all_listings) :
         /\ all_listings[i].title # NoneStr
         /\ ~TruthyStr(emitted[i].title) =>
              /\ TruthyInt(all_listings[i].price)
              /\ all_listings[i].title = FirstLine(all_listings[i].raw)

\* C14 witness: the returned list holds the record of an element without a
\* title whose price, 90, was found in its text "₹90\nx": the title field is
\* the first line of that text
C14_Witness ==
    /\ pc = "done" /\ outcome = "returned"
    /\ \E i \in 1..Len(all_listings) :
         /\ ~TruthyStr(emitted[i].title)
         /\ all_listings[i].price = 90
         /\ all_listings[i].raw = <<"₹", "9", "0", "\n", "x">>
         /\ all_listings[i].title = <<"₹", "9", "0">>

(***************************************************************************)
(* Claims about the delays and the acceptance test of fetch_html (SpecFetch) *)
(***************************************************************************)
\* the time slept between the k-th request, which failed, and the request
\* after it: the backoff of line 75 and the delay of line 60 of the next attempt
DelayAfter(k) == slept[2 * k] + slept[2 * k + 1]

\* C15 as claimed: the delay between the first failed attempt and the first
\* retry lies in 1.0-2.5, the delay before each later retry in 2-5.
C15_IncreasingDelay ==
    \A k \in 1..(requests - 1) :
        2 * k + 1 <= Len(slept) =>
            IF k = 1 THEN 10 <= DelayAfter(k) /\ DelayAfter(k) <= 25
            ELSE 20 <= DelayAfter(k) /\ DelayAfter(k) <= 50

\* C15, amended: every request, the first included, is preceded by a sleep of
\* 1.0-2.5; a failed attempt that is not the last is followed by a sleep of
\* 2-5, so the delay between a failed attempt and the next request is the sum
\* of the two, 3.0-7.5, for the first retry as for the later ones; after the
\* last failed attempt nothing is slept.
C15_BackoffThenDelay ==
    /\ fpc \in {"loop", "done"} =>
         /\ Len(slept) = IF fpc = "done" /\ requests > 0 THEN 2 * requests - 1
                         ELSE 2 * requests
         /\ \A i \in 1..Len(slept) :
              IF i % 2 = 1 THEN 10 <= slept[i] /\ slept[i] <= 25
              ELSE 20 <= slept[i] /\ slept[i] <= 50
    /\ \A k \in 1..(requests - 1) :
         2 * k + 1 <= Len(slept) =>
             30 <= DelayAfter(k) /\ DelayAfter(k) <= 75

\* C15 witness: three requests failed and None was returned; 2.0 and 2.5 were
\* slept between the first and the second request, 5.0 and 1.0 between the
\* second and the third, and nothing after the third
C15_Witness ==
    /\ fpc = "done" /\ fret = NoneStr
    /\ max_retries = DefaultMaxRetries /\ requests = 3
    /\ Len(slept) = 5
    /\ slept[2] = 20 /\ slept[3] = 25
    /\ slept[4] = 50 /\ slept[5] = 10

(***************************************************************************)
(* Claims about the wait of scrape_olx_listings (SpecScrape)               *)
(***************************************************************************)
\* C16: the wait for the marker always leads to the selector loop of the same
\* page, whether the marker appeared or the wait timed out (or raised); on a
\* page whose wait timed out the selectors are evaluated, the elements found
\* are processed, and when none is found nothing is added and the loop goes
\* on with the next page (with a visible browser driver.title is read first,
\* and only a failure of that call can end the run instead).
C16_Step ==
    /\ pc = "wait" =>
         /\ pc' = "resolve" /\ page' = page
         /\ marker' \in {"present", "timeout"}
         /\ sel' = 1 /\ items' = <<>> /\ evaluated' = <<>>
         /\ all_listings' = all_listings
    /\ (marker = "timeout" /\ pc = "resolve" /\ sel <= NSel) =>
         /\ evaluated' = Append(evaluated, sel)
         /\ marker' = marker /\ page' = page
    /\ (marker = "timeout" /\ pc = "resolved" /\ items # <<>>) =>
         /\ pc' = "items" /\ idx' = 1
         /\ marker' = marker /\ page' = page
    /\ (marker = "timeout" /\ pc = "resolved" /\ items = <<>>) =>
         /\ all_listings' = all_listings
         /\ \/ pc' = "loop" /\ page' = page + 1
            \/ ~headless /\ pc' = "except"

C16_State ==
    marker = "timeout" =>
        /\ pc \in {"resolve", "resolved", "items"}
        /\ page \in 1..pages
        /\ navigated[Len(navigated)] = page

HasMarkupRoot(text) ==
    \E i \in 1..(Len(text) - 4) :
        /\ text[i] = "<"
        /\ text[i + 1] \in {"h", "H"} /\ text[i + 2] \in {"t", "T"}
        /\ text[i + 3] \in {"m", "M"} /\ text[i + 4] \in {"l", "L"}
\* a response with a success status whose body has the markup root
GoodResponse(r) ==
    ~r.raised /\ r.status \in 200..399 /\ r.text # NoneStr /\ HasMarkupRoot(r.text)

\* C17: a text is returned only as the text of the last response, which had a
\* success status and a body with "<html" in any case; a request answered
\* otherwise (an error, an error status, a body without the markup root) is a
\* failed attempt: it uses up one of the max_retries attempts, its text is
\* never returned, and it is followed by another request unless it was the
\* last attempt, after which None is returned.
C17_Step ==
    requests' = requests + 1 =>
        /\ requests' <= max_retries
        /\ IF GoodResponse(response')
           THEN fpc' = "done" /\ fret' = response'.text
           ELSE /\ fret' \in {NotReturned, NoneStr}
                /\ IF requests' < max_retries
                   THEN /\ fpc' = "loop" /\ fret' = NotReturned
                        /\ attempt' = attempt + 1 /\ attempt' = requests'
                        /\ attempt' < max_retries'
                   ELSE fpc' = "done" /\ fret' = NoneStr

C17_State ==
    /\ (fpc = "done" /\ fret # NoneStr) =>
         /\ GoodResponse(response)
         /\ fret = response.text
         /\ requests \in 1..max_retries
    /\ (fpc = "done" /\ requests > 0 /\ ~GoodResponse(response)) =>
         fret = NoneStr /\ requests = max_retries
    /\ (fpc = "loop" /\ requests > 0) =>
         ~GoodResponse(response) /\ requests < max_retries

C17_OnlyMarkupIsReturned == [][C17_Step]_vars /\ []C17_State

\* C17 witness: the first request was answered with status 200 and the body
\* "{}"; nothing was returned, the backoff was slept and the second of three
\* attempts is next
C17_Witness ==
    /\ fpc = "loop" /\ max_retries = DefaultMaxRetries
    /\ requests = 1 /\ attempt = 1
    /\ response = [raised |-> FALSE, status |-> 200, text |-> <<"{", "}">>]
    /\ fret = NotReturned
    /\ Len(slept) = 2

(***************************************************************************)
(* Claims about the size and order of the result of app.py (SpecRank)      *)
(***************************************************************************)
\* the positions of the listings inside the tolerance band
BandPositions ==
    {i \in 1..Len(listings) :
        /\ listings[i].price # Null
        /\ price * (100 - tol) <= 100 * listings[i].price
        /\ 100 * listings[i].price <= price * (100 + tol)}

\* C18: the result never has more than 10 entries; when a listing is in the
\* band, the result is the listings of the band in scrape order, cut after the
\* 10th: the k-th listing of the band is the k-th entry for k <= 10, whatever
\* its distance from the reference price, and nothing else is in the result.
C18_FirstTenOfBand ==
    /\ Len(results) <= 10
    /\ (rpc = "shown" /\ BandPositions # {}) =>
         /\ Len(results) = Min(10, Cardinality(BandPositions))
         /\ \A i \in BandPositions :
              LET k == Cardinality({j \in BandPositions : j <= i})
              IN  k <= 10 => results[k] = listings[i]

\* C18 witness: 12 listings, the first without a price and the 11 others in
\* the band of 100 +/- 50%; the result is listings 2 to 11; it starts with a
\* listing at 150 and leaves out the 12th, at 120, which is closer to 100
C18_Witness ==
    /\ rpc = "shown" /\ price = 100 /\ tol = 50
    /\ Len(listings) = 12 /\ listings[1].price = Null
    /\ Len(results) = 10
    /\ results[1] = listings[2] /\ results[1].price = 150
    /\ results[10] = listings[11]
    /\ listings[12].price = 120

====
